---- MODULE Spec2Model ----
(***************************************************************************)
(* Drum-pad firmware (narecoronaa/Corona_Junquera_2C_2025).                *)
(*                                                                         *)
(* Three app_main variants are modelled, chosen in Init:                   *)
(*   "drum" firmware/projects/Proyecto_DrumPads_2025 (AdcTask, UmbralTask, *)
(*          PlaySoundTask, TimerAdcCallback)                               *)
(*   "ad"   firmware/projects/Proyecto_AD (AdcTask, TimerAdcCallback)      *)
(*   "old"  firmware/Proyecto_DrumPads_2025 (ObtenerGolpeP1/P2,            *)
(*          Timer_medir)                                                   *)
(*                                                                         *)
(* Tasks are FreeRTOS tasks of equal priority under a preemptive kernel,   *)
(* so every statement of a task is one step and steps of different tasks,  *)
(* of the timer interrupt and of the tick interrupt interleave freely.     *)
(* FreeRTOS direct-to-task notifications are modelled by their documented  *)
(* semantics: a 32-bit value and a pending flag per task.                  *)
(***************************************************************************)
EXTENDS Integers, Sequences, FiniteSets, TLC

(* ------------------------------ bounds -------------------------------- *)
\* number of ticks a run across a counter wrap lasts
MaxWrapTicks == 22
\* number of timer interrupts delivered in one run
MaxSignals == 2
\* the tick count stops advancing here
MaxTick == 22

(* ------------------------- program constants -------------------------- *)
ADC_THRESHOLD_MV_MINIMUM == 400
HIT_COOLDOWN_MS == 100
SAMPLE_RATE == 8000
PLAY_SNARE == 1
PLAY_HIHAT == 2
DAC_NEUTRAL == 512
HOLD_MS == 125
ADC_REF_MV == 3300
ADC_FULL_SCALE == 4095
\* ESP-IDF default tick rate (CONFIG_FREERTOS_HZ), behind portTICK_PERIOD_MS
configTICK_RATE_HZ == 100

\* a uint32_t is held as <<high half, low half>>, 16 bits each
Half == 2^16
NULL == "NULL"
Variants == {"drum", "ad", "old"}

\* raw 12-bit codes AnalogInputReadSingle may deliver: just at the threshold
\* (400 mV) and just above it (401 mV)
RawInputs == {497, 498}
\* the tick counts, after tick 0, at which tasks get to run: 100 ms and 110 ms
\* after boot (the cooldown's edge), and 110 ms after that
Instants == {10, 11, 22}

(* --------------------------- pure helpers ----------------------------- *)
U32(n) == <<(n \div Half) % Half, n % Half>>

\* uint32_t a + n, for 0 <= n < 2^16
Add32(a, n) == <<(a[1] + ((a[2] + n) \div Half)) % Half, (a[2] + n) % Half>>

\* uint32_t a - b
Sub32(a, b) ==
    <<(a[1] - b[1] - (IF a[2] < b[2] THEN 1 ELSE 0) + Half) % Half,
      (a[2] - b[2] + Half) % Half>>

\* uint32_t a * k, for 0 <= k < 2^15
Mul32(a, k) == <<(a[1] * k + ((a[2] * k) \div Half)) % Half, (a[2] * k) % Half>>

\* uint32_t a > n and a >= n, for 0 <= n < 2^16
Gt32(a, n) == a[1] > 0 \/ a[2] > n
Ge32(a, n) == a[1] > 0 \/ a[2] >= n

portTICK_PERIOD_MS == 1000 \div configTICK_RATE_HZ

pdMS_TO_TICKS(ms) == (ms * configTICK_RATE_HZ) \div 1000

\* xTaskGetTickCount() * portTICK_PERIOD_MS in uint32_t
TickToMs(t) == Mul32(t, portTICK_PERIOD_MS)

\* faulty alternative: the product is kept in 16 bits
ToMilliv_Wrap16(raw) == ((raw * ADC_REF_MV) % Half) \div ADC_FULL_SCALE

\* faulty alternative: the quotient is rounded to the nearest integer
ToMilliv_Round(raw) == (raw * ADC_REF_MV + (ADC_FULL_SCALE \div 2)) \div ADC_FULL_SCALE

\* (uint32_t)((valor_adc * 3300UL) / 4095UL)
ToMilliv(raw) == (raw * ADC_REF_MV) \div ADC_FULL_SCALE

\* faulty alternative: the two values in the wrong places
FormatDual_Swapped(a, b) == <<"A:", b, ",B:", a, "\r\n">>

\* sprintf(buffer, "A:%lu,B:%lu\r\n", milliv_A, milliv_B): the fields of the line
FormatDual(a, b) == <<"A:", a, ",B:", b, "\r\n">>

\* sprintf(buffer, "%lu\r\n", milliv)
FormatSingle(a) == <<a, "\r\n">>

NoLine == <<>>

\* the argument of an AnalogOutputWrite call: a number written in the code, or
\* an element of a sample array
Value(n) == <<"value", n>>

\* the sample buffers declared in drum_samples.h: the lengths are bounds of
\* the model; element i of an array is referred to by the array and i, its
\* byte is in drum_samples.c
snare_drum_size == 1
hi_hat_size == 2
snare_drum_sample(i) == <<"snare_drum_sample", i>>
hi_hat_sample(i) == <<"hi_hat_sample", i>>

BufferOf(id) ==
    IF id = PLAY_SNARE THEN [k \in 1..snare_drum_size |-> snare_drum_sample(k - 1)]
    ELSE IF id = PLAY_HIHAT THEN [k \in 1..hi_hat_size |-> hi_hat_sample(k - 1)]
    ELSE <<>>

(* ------------------------------ state --------------------------------- *)
VARIABLES
    variant,                \* which app_main is built
    main_pc,                \* app_main: index of its next statement
    timer_started,          \* TimerStart(TIMER_A) has run
    tick,                   \* xTaskGetTickCount()
    adc_task_handle, umbral_task_handle, playSound_task_handle,
    ObtenerGolpeP1_task_handle, ObtenerGolpeP2_task_handle,   \* ObtenerGolpeP1/P2_task_handle
    null_notified,          \* a notification was sent through a NULL handle
    \* AdcTask (drum)
    adc_pc, adc_notify,
    valor_adc_A, valor_adc_B, milliv_A, milliv_B,
    last_hit_time_A, last_hit_time_B, current_time,
    uart,                   \* last line given to UartSendString
    \* AdcTask (ad)
    valor_adc, milliv,
    \* UmbralTask
    umbral_pc, umbral_notify, led,
    umbral_delay_from,      \* tick at which the pending vTaskDelay was called
   
    \* PlaySoundTask
    play_pc, play_value, play_notified, soundToPlay, play_i, play_delay_from, dac,
    \* ObtenerGolpeP1 / ObtenerGolpeP2 (old)
    p1_pc, p2_pc, p1_notify, p2_notify, ValorP1, ValorP2,
    \* history (observers, never read by the program)
    signals,                \* timer interrupts delivered
    passes,                 \* sampling passes started
    passLog,                \* what the current pass has done, in order
    pre_last_A, pre_last_B, \* last_hit_time_X when the current pass started
    prev,                   \* summary of the previous pass
    reqs,                   \* the last two sound requests since PlaySoundTask last woke
    wakeReqs,               \* the last two requests its last wake consumed
    dacLog,                 \* values written to the DAC since its last wake
    midReq,                 \* a request arrived during the current playback
    holdGives,              \* gives since UmbralTask last woke, made before it was
                            \* back at ulTaskNotifyTake
    waitGives,              \* gives made while it was at ulTaskNotifyTake
    overlapCycle            \* its last wake was caused only by gives made during
                            \* the hold cycle before

mainVars == <<variant, main_pc, timer_started, adc_task_handle, umbral_task_handle,
              playSound_task_handle, ObtenerGolpeP1_task_handle, ObtenerGolpeP2_task_handle>>
adcLocal == <<valor_adc_A, valor_adc_B, milliv_A, milliv_B,
              last_hit_time_A, last_hit_time_B, current_time, uart>>
adVars == <<valor_adc, milliv>>
umbralLocal == <<umbral_delay_from, led>>
playLocal == <<soundToPlay, play_i, play_delay_from, dac>>
oldVars == <<p1_pc, p2_pc, p1_notify, p2_notify, ValorP1, ValorP2>>
adcHist == <<passes, passLog, pre_last_A, pre_last_B, prev>>
playHist == <<reqs, wakeReqs, dacLog, midReq>>
umbralHist == <<holdGives, waitGives, overlapCycle>>

vars == <<mainVars, tick, null_notified, adc_pc, adc_notify, adcLocal, adVars,
          umbral_pc, umbral_notify, umbralLocal,
          play_pc, play_value, play_notified, playLocal, oldVars,
          signals, adcHist, playHist, umbralHist>>

NoPass == [t |-> <<0, 0>>, mvA |-> 0, mvB |-> 0, accA |-> FALSE, accB |-> FALSE,
           lastA |-> <<0, 0>>, lastB |-> <<0, 0>>]

Init ==
    /\ variant \in Variants
    /\ main_pc = 1
    /\ timer_started = FALSE
    /\ tick = U32(0)
    /\ adc_task_handle = NULL /\ umbral_task_handle = NULL
    /\ playSound_task_handle = NULL /\ ObtenerGolpeP1_task_handle = NULL /\ ObtenerGolpeP2_task_handle = NULL
    /\ null_notified = FALSE
    /\ adc_pc = "none" /\ adc_notify = 0
    /\ valor_adc_A = 0 /\ valor_adc_B = 0 /\ milliv_A = 0 /\ milliv_B = 0
    /\ last_hit_time_A = U32(0) /\ last_hit_time_B = U32(0) /\ current_time = U32(0)
    /\ uart = NoLine
    /\ valor_adc = 0 /\ milliv = 0
    /\ umbral_pc = "none" /\ umbral_notify = 0 /\ umbral_delay_from = U32(0) /\ led = "off"
    /\ play_pc = "none" /\ play_value = 0 /\ play_notified = FALSE
    /\ soundToPlay = 0 /\ play_i = 0 /\ play_delay_from = U32(0) /\ dac = Value(0)
    /\ p1_pc = "none" /\ p2_pc = "none" /\ p1_notify = 0 /\ p2_notify = 0
    /\ ValorP1 = 0 /\ ValorP2 = 0
    /\ signals = 0 /\ passes = 0 /\ passLog = <<>>
    /\ pre_last_A = U32(0) /\ pre_last_B = U32(0) /\ prev = NoPass
    /\ reqs = <<>> /\ wakeReqs = <<>> /\ dacLog = <<>> /\ midReq = FALSE
    /\ holdGives = 0 /\ waitGives = 0 /\ overlapCycle = FALSE


(* ----------------------------- app_main ------------------------------- *)
\* faulty alternative: the timer is started before the tasks are created
MainSteps_TimerFirst(v) ==
    IF v = "drum"
    THEN <<"TimerInit", "TimerStart", "xTaskCreateAdc", "xTaskCreateUmbral",
           "xTaskCreatePlay">>
    ELSE IF v = "ad"
    THEN <<"TimerInit", "TimerStart", "xTaskCreateAdc">>
    ELSE <<"TimerInit", "TimerStart", "xTaskCreateP1", "xTaskCreateP2">>

\* the statements of app_main that touch tasks, peripherals or the timer, in order
MainSteps(v) ==
    IF v = "drum"
    THEN <<"TimerInit", "AnalogInputInit", "AnalogInputInit", "AnalogOutputInit",
           "UartInit", "NeoPixelInit",
           "xTaskCreateAdc", "xTaskCreateUmbral", "xTaskCreatePlay", "TimerStart">>
    ELSE IF v = "ad"
    THEN <<"AnalogInputInit", "UartInit", "TimerInit", "xTaskCreateAdc", "TimerStart">>
    ELSE <<"xTaskCreateP1", "xTaskCreateP2", "TimerInit",
           "AnalogInputInit", "AnalogInputInit", "TimerStart">>

\* xTaskCreate stores the handle and makes the task runnable at its first statement
app_main ==
    /\ main_pc <= Len(MainSteps(variant))
    /\ LET s == MainSteps(variant)[main_pc] IN
        /\ main_pc' = main_pc + 1
        /\ timer_started' = (timer_started \/ s = "TimerStart")
        /\ adc_task_handle' = IF s = "xTaskCreateAdc" THEN "AdcTask" ELSE adc_task_handle
        /\ adc_pc' = IF s = "xTaskCreateAdc" THEN "take" ELSE adc_pc
        /\ umbral_task_handle' =
               IF s = "xTaskCreateUmbral" THEN "UmbralTask" ELSE umbral_task_handle
        /\ umbral_pc' = IF s = "xTaskCreateUmbral" THEN "take" ELSE umbral_pc
        /\ playSound_task_handle' =
               IF s = "xTaskCreatePlay" THEN "PlaySoundTask" ELSE playSound_task_handle
        /\ play_pc' = IF s = "xTaskCreatePlay" THEN "wait" ELSE play_pc
        /\ ObtenerGolpeP1_task_handle' = IF s = "xTaskCreateP1" THEN "ObtenerGolpeP1" ELSE ObtenerGolpeP1_task_handle
        /\ p1_pc' = IF s = "xTaskCreateP1" THEN "take" ELSE p1_pc
        /\ ObtenerGolpeP2_task_handle' = IF s = "xTaskCreateP2" THEN "ObtenerGolpeP2" ELSE ObtenerGolpeP2_task_handle
        /\ p2_pc' = IF s = "xTaskCreateP2" THEN "take" ELSE p2_pc
    /\ UNCHANGED <<variant, tick, null_notified, adc_notify, adcLocal, adVars,
                   umbral_notify, umbralLocal, play_value, play_notified, playLocal,
                   p1_notify, p2_notify, ValorP1, ValorP2,
                   signals, adcHist, playHist, umbralHist>>

(* ------------------------- interrupts and time ------------------------ *)
\* a vTaskDelay(n) called at tick `from` has expired
\* faulty alternative: the delay returns at once
DelayElapsed_NoWait(from, n) == TRUE

DelayElapsed(from, n) == Ge32(Sub32(tick, from), n)

UmbralHolding == umbral_pc = "hold" /\ ~DelayElapsed(umbral_delay_from, pdMS_TO_TICKS(HOLD_MS))

\* a later instant the tick count can be advanced to
TickFits(t) == tick[1] = 0 /\ tick[2] < t /\ t <= MaxTick

\* every timer interrupt of the run has been delivered and sampled
SamplingOver == signals = MaxSignals /\ adc_notify = 0 /\ adc_pc = "take"

\* tick interrupts up to the next instant at which a task runs; past MaxTick
\* time only runs on, once sampling is over, to the expiry of a pending delay
TickISR ==
    /\ \/ \E t \in Instants : TickFits(t) /\ tick' = Add32(tick, t - tick[2])
       \/ /\ UmbralHolding
          /\ SamplingOver
          /\ \A t \in Instants : ~TickFits(t)
          /\ tick' = Add32(umbral_delay_from, pdMS_TO_TICKS(HOLD_MS))
    /\ UNCHANGED <<mainVars, null_notified, adc_pc, adc_notify, adcLocal, adVars,
                   umbral_pc, umbral_notify, umbralLocal,
                   play_pc, play_value, play_notified, playLocal, oldVars,
                   signals, adcHist, playHist, umbralHist>>

\* faulty alternative: the callback also samples pad A itself
TimerAdcCallback_Reads ==
    /\ variant \in {"drum", "ad"}
    /\ timer_started
    /\ signals < MaxSignals
    /\ signals' = signals + 1
    /\ adc_notify' = adc_notify + 1
    /\ valor_adc_A' = ADC_FULL_SCALE
    /\ UNCHANGED <<mainVars, tick, null_notified, adc_pc, adVars,
                   valor_adc_B, milliv_A, milliv_B,
                   last_hit_time_A, last_hit_time_B, current_time, uart,
                   umbral_pc, umbral_notify, umbralLocal,
                   play_pc, play_value, play_notified, playLocal, oldVars,
                   adcHist, playHist, umbralHist>>

\* vTaskNotifyGiveFromISR(adc_task_handle, NULL)
TimerAdcCallback ==
    /\ variant \in {"drum", "ad"}
    /\ timer_started
    /\ signals < MaxSignals
    /\ signals' = signals + 1
    /\ IF adc_task_handle = NULL
       THEN null_notified' = TRUE /\ UNCHANGED adc_notify
       ELSE adc_notify' = adc_notify + 1 /\ UNCHANGED null_notified
    /\ UNCHANGED <<mainVars, tick, adc_pc, adcLocal, adVars,
                   umbral_pc, umbral_notify, umbralLocal,
                   play_pc, play_value, play_notified, playLocal, oldVars,
                   adcHist, playHist, umbralHist>>

\* vTaskNotifyGiveFromISR on both ObtenerGolpe tasks
Timer_medir ==
    /\ variant = "old"
    /\ timer_started
    /\ signals < MaxSignals
    /\ signals' = signals + 1
    /\ null_notified' = (null_notified \/ ObtenerGolpeP1_task_handle = NULL \/ ObtenerGolpeP2_task_handle = NULL)
    /\ p1_notify' = IF ObtenerGolpeP1_task_handle = NULL THEN p1_notify ELSE p1_notify + 1
    /\ p2_notify' = IF ObtenerGolpeP2_task_handle = NULL THEN p2_notify ELSE p2_notify + 1
    /\ UNCHANGED <<mainVars, tick, adc_pc, adc_notify, adcLocal, adVars,
                   umbral_pc, umbral_notify, umbralLocal,
                   play_pc, play_value, play_notified, playLocal,
                   p1_pc, p2_pc, ValorP1, ValorP2,
                   adcHist, playHist, umbralHist>>

(* ------------------------- AdcTask (drum) ------------------------------ *)
\* faulty alternative: ulTaskNotifyTake(pdFALSE, ...), the count is decremented
AdcTakeLeft_Decrement(v) == v - 1

\* ulTaskNotifyTake(pdTRUE, ...): what is left of the count once it returns
AdcTakeLeft(v) == 0

\* faulty alternative: the cooldown test is >= instead of >
AcceptCond_CooldownGe(mv, now, last) ==
    mv > ADC_THRESHOLD_MV_MINIMUM /\ Ge32(Sub32(now, last), HIT_COOLDOWN_MS)

\* faulty alternative: no cooldown test
AcceptCond_NoCooldown(mv, now, last) == mv > ADC_THRESHOLD_MV_MINIMUM

\* faulty alternative: a pad that never had an event has no cooldown
AcceptCond_FirstHitFree(mv, now, last) ==
    /\ mv > ADC_THRESHOLD_MV_MINIMUM
    /\ last = <<0, 0>> \/ Gt32(Sub32(now, last), HIT_COOLDOWN_MS)

\* faulty alternative: a time that reads lower than the last hit counts as elapsed
AcceptCond_WrapAccepts(mv, now, last) ==
    /\ mv > ADC_THRESHOLD_MV_MINIMUM
    /\ \/ now[1] < last[1]
       \/ now[1] = last[1] /\ now[2] < last[2]
       \/ Gt32(Sub32(now, last), HIT_COOLDOWN_MS)

\* (milliv_X > ADC_THRESHOLD_MV_MINIMUM) && (current_time - last_hit_time_X > HIT_COOLDOWN_MS)
AcceptCond(mv, now, last) ==
    mv > ADC_THRESHOLD_MV_MINIMUM /\ Gt32(Sub32(now, last), HIT_COOLDOWN_MS)

\* the sound identifier AdcTask sends for a pad
SoundFor(pad) == IF pad = "A" THEN PLAY_SNARE ELSE PLAY_HIHAT

Logged(tag) == \E k \in 1..Len(passLog) : passLog[k][1] = tag

\* the pass that is ending, as the next pass will remember it
ThisPass == [t |-> current_time, mvA |-> milliv_A, mvB |-> milliv_B,
             accA |-> Logged("acceptA"), accB |-> Logged("acceptB"),
             lastA |-> pre_last_A, lastB |-> pre_last_B]

AdcTake ==
    /\ variant = "drum" /\ adc_pc = "take"
    /\ adc_notify > 0
    /\ adc_notify' = AdcTakeLeft(adc_notify)
    /\ adc_pc' = "readA"
    /\ passes' = passes + 1
    /\ passLog' = <<>>
    /\ pre_last_A' = last_hit_time_A /\ pre_last_B' = last_hit_time_B
    /\ prev' = IF passes > 0 THEN ThisPass ELSE prev
    /\ UNCHANGED <<mainVars, tick, null_notified, adcLocal, adVars,
                   umbral_pc, umbral_notify, umbralLocal,
                   play_pc, play_value, play_notified, playLocal, oldVars,
                   signals, playHist, umbralHist>>

\* the steps of a pass that touch only AdcTask's own data
AdcLocalStep(from, to, entry) ==
    /\ variant = "drum" /\ adc_pc = from
    /\ adc_pc' = to
    /\ passLog' = Append(passLog, entry)
    /\ UNCHANGED <<mainVars, tick, null_notified, adc_notify, adVars,
                   umbral_pc, umbral_notify, umbralLocal,
                   play_pc, play_value, play_notified, playLocal, oldVars,
                   signals, passes, pre_last_A, pre_last_B, prev,
                   playHist, umbralHist>>

\* AnalogInputReadSingle(ADC_CHANNEL_A, &valor_adc_A)
AdcReadA ==
    \E r \in RawInputs :
        /\ AdcLocalStep("readA", "readB", <<"readA", r, 0>>)
        /\ valor_adc_A' = r
        /\ UNCHANGED <<valor_adc_B, milliv_A, milliv_B,
                       last_hit_time_A, last_hit_time_B, current_time, uart>>

\* AnalogInputReadSingle(ADC_CHANNEL_B, &valor_adc_B)
AdcReadB ==
    \E r \in RawInputs :
        /\ AdcLocalStep("readB", "convA", <<"readB", r, 0>>)
        /\ valor_adc_B' = r
        /\ UNCHANGED <<valor_adc_A, milliv_A, milliv_B,
                       last_hit_time_A, last_hit_time_B, current_time, uart>>

\* milliv_A = (uint32_t)((valor_adc_A * 3300UL) / 4095UL)
AdcConvA ==
    /\ AdcLocalStep("convA", "convB", <<"convA", ToMilliv(valor_adc_A), 0>>)
    /\ milliv_A' = ToMilliv(valor_adc_A)
    /\ UNCHANGED <<valor_adc_A, valor_adc_B, milliv_B,
                   last_hit_time_A, last_hit_time_B, current_time, uart>>

\* milliv_B = (uint32_t)((valor_adc_B * 3300UL) / 4095UL)
AdcConvB ==
    /\ AdcLocalStep("convB", "uart", <<"convB", ToMilliv(valor_adc_B), 0>>)
    /\ milliv_B' = ToMilliv(valor_adc_B)
    /\ UNCHANGED <<valor_adc_A, valor_adc_B, milliv_A,
                   last_hit_time_A, last_hit_time_B, current_time, uart>>

\* sprintf(buffer, ...) and UartSendString(UART_PC, buffer)
AdcUart ==
    /\ AdcLocalStep("uart", "time", <<"uart", FormatDual(milliv_A, milliv_B), 0>>)
    /\ uart' = FormatDual(milliv_A, milliv_B)
    /\ UNCHANGED <<valor_adc_A, valor_adc_B, milliv_A, milliv_B,
                   last_hit_time_A, last_hit_time_B, current_time>>

\* current_time = xTaskGetTickCount() * portTICK_PERIOD_MS
AdcGetTime ==
    /\ AdcLocalStep("time", "chkA", <<"time", TickToMs(tick), 0>>)
    /\ current_time' = TickToMs(tick)
    /\ UNCHANGED <<valor_adc_A, valor_adc_B, milliv_A, milliv_B,
                   last_hit_time_A, last_hit_time_B, uart>>

\* faulty alternative: a hit on pad A also restarts pad B's cooldown
AdcCheckA_StampsBoth ==
    /\ IF AcceptCond(milliv_A, current_time, last_hit_time_A)
       THEN /\ AdcLocalStep("chkA", "giveA", <<"acceptA", current_time, 0>>)
            /\ last_hit_time_A' = current_time
            /\ last_hit_time_B' = current_time
       ELSE /\ AdcLocalStep("chkA", "chkB", <<"rejectA", current_time, 0>>)
            /\ UNCHANGED <<last_hit_time_A, last_hit_time_B>>
    /\ UNCHANGED <<valor_adc_A, valor_adc_B, milliv_A, milliv_B, current_time, uart>>

\* if (... PAD A ...) { last_hit_time_A = current_time;
AdcCheckA ==
    /\ IF AcceptCond(milliv_A, current_time, last_hit_time_A)
       THEN /\ AdcLocalStep("chkA", "giveA", <<"acceptA", current_time, 0>>)
            /\ last_hit_time_A' = current_time
       ELSE /\ AdcLocalStep("chkA", "chkB", <<"rejectA", current_time, 0>>)
            /\ UNCHANGED last_hit_time_A
    /\ UNCHANGED <<valor_adc_A, valor_adc_B, milliv_A, milliv_B,
                   last_hit_time_B, current_time, uart>>

\* if (... PAD B ...) { last_hit_time_B = current_time;
AdcCheckB ==
    /\ IF AcceptCond(milliv_B, current_time, last_hit_time_B)
       THEN /\ AdcLocalStep("chkB", "giveB", <<"acceptB", current_time, 0>>)
            /\ last_hit_time_B' = current_time
       ELSE /\ AdcLocalStep("chkB", "take", <<"rejectB", current_time, 0>>)
            /\ UNCHANGED last_hit_time_B
    /\ UNCHANGED <<valor_adc_A, valor_adc_B, milliv_A, milliv_B,
                   last_hit_time_A, current_time, uart>>

\* faulty alternative: the give sets a flag instead of counting
GiveValue_Binary(v) == 1

\* vTaskNotifyGive: the notification value is incremented
GiveValue(v) == v + 1

\* vTaskNotifyGive(umbral_task_handle)
GiveUmbral(from, to, tag) ==
    /\ variant = "drum" /\ adc_pc = from
    /\ adc_pc' = to
    /\ passLog' = Append(passLog, <<tag, 0, 0>>)
    /\ IF umbral_task_handle = NULL
       THEN null_notified' = TRUE /\ UNCHANGED <<umbral_notify, holdGives, waitGives>>
       ELSE /\ umbral_notify' = GiveValue(umbral_notify)
            /\ holdGives' = IF umbral_pc = "take" THEN holdGives ELSE holdGives + 1
            /\ waitGives' = IF umbral_pc = "take" THEN waitGives + 1 ELSE waitGives
            /\ UNCHANGED null_notified
    /\ UNCHANGED <<mainVars, tick, adc_notify, adcLocal, adVars,
                   umbral_pc, umbralLocal,
                   play_pc, play_value, play_notified, playLocal, oldVars,
                   signals, passes, pre_last_A, pre_last_B, prev,
                   playHist, overlapCycle>>

\* faulty alternative: eSetValueWithoutOverwrite, a pending value is kept
NotifyValue_NoOverwrite(id) == IF play_notified THEN play_value ELSE id

\* faulty alternative: eSetBits, the identifier is or-ed into a pending value
NotifyValue_SetBits(id) ==
    IF play_notified /\ play_value # id THEN PLAY_SNARE + PLAY_HIHAT ELSE id

\* eSetValueWithOverwrite: the value the playback task will receive
NotifyValue(id) == id

LastTwo(q) == IF Len(q) <= 2 THEN q ELSE SubSeq(q, Len(q) - 1, Len(q))

\* xTaskNotify(playSound_task_handle, id, eSetValueWithOverwrite)
NotifyPlay(from, to, tag, id) ==
    /\ variant = "drum" /\ adc_pc = from
    /\ adc_pc' = to
    /\ passLog' = Append(passLog, <<tag, id, 0>>)
    /\ IF playSound_task_handle = NULL
       THEN null_notified' = TRUE /\ UNCHANGED <<play_value, play_notified, reqs, midReq>>
       ELSE /\ play_value' = NotifyValue(id)
            /\ play_notified' = TRUE
            /\ reqs' = LastTwo(Append(reqs, id))
            /\ midReq' = (midReq \/ play_pc # "wait")
            /\ UNCHANGED null_notified
    /\ UNCHANGED <<mainVars, tick, adc_notify, adcLocal, adVars,
                   umbral_pc, umbral_notify, umbralLocal,
                   play_pc, playLocal, oldVars,
                   signals, passes, pre_last_A, pre_last_B, prev,
                   wakeReqs, dacLog, umbralHist>>

AdcGiveA == GiveUmbral("giveA", "playA", "giveA")
\* faulty alternative: pad B is tested in an else branch of pad A's test
AdcPlayA_ElseIf == NotifyPlay("playA", "take", "playA", SoundFor("A"))

AdcPlayA == NotifyPlay("playA", "chkB", "playA", SoundFor("A"))
AdcGiveB == GiveUmbral("giveB", "playB", "giveB")
AdcPlayB == NotifyPlay("playB", "take", "playB", SoundFor("B"))

(* ----------------------------- UmbralTask ------------------------------ *)
\* ulTaskNotifyTake(pdTRUE, portMAX_DELAY) returns
UmbralTake ==
    /\ umbral_pc = "take"
    /\ umbral_notify > 0
    /\ umbral_notify' = 0
    /\ umbral_pc' = "on"
    /\ overlapCycle' = (holdGives > 0 /\ waitGives = 0)
    /\ holdGives' = 0 /\ waitGives' = 0
    /\ UNCHANGED <<mainVars, tick, null_notified, adc_pc, adc_notify, adcLocal, adVars,
                   umbralLocal, play_pc, play_value, play_notified, playLocal, oldVars,
                   signals, adcHist, playHist>>

\* NeoPixelAllColor(NEOPIXEL_COLOR_RED), then vTaskDelay(pdMS_TO_TICKS(125)) is called
UmbralOn ==
    /\ umbral_pc = "on"
    /\ led' = "red"
    /\ umbral_delay_from' = tick
    /\ umbral_pc' = "hold"
    /\ UNCHANGED <<mainVars, tick, null_notified, adc_pc, adc_notify, adcLocal, adVars,
                   umbral_notify, play_pc, play_value, play_notified, playLocal, oldVars,
                   signals, adcHist, playHist, umbralHist>>

\* the delay expires, NeoPixelAllOff()
UmbralOff ==
    /\ umbral_pc = "hold"
    /\ DelayElapsed(umbral_delay_from, pdMS_TO_TICKS(HOLD_MS))
    /\ led' = "off"
    /\ umbral_pc' = "take"
    /\ umbral_delay_from' = U32(0)
    /\ UNCHANGED <<mainVars, tick, null_notified, adc_pc, adc_notify, adcLocal, adVars,
                   umbral_notify,
                   play_pc, play_value, play_notified, playLocal, oldVars,
                   signals, adcHist, playHist, umbralHist>>

(* ---------------------------- PlaySoundTask ---------------------------- *)
\* the loop a received identifier selects
LoopFor(id) ==
    IF id = PLAY_SNARE THEN "snare" ELSE IF id = PLAY_HIHAT THEN "hihat" ELSE "neutral"

\* faulty alternative: the loops stop one sample early
PlayLoopCond_OffByOne(loop, i) ==
    i < (IF loop = "snare" THEN snare_drum_size ELSE hi_hat_size) - 1

\* faulty alternative: the loops give up when a new notification is pending
PlayLoopCond_Abort(loop, i) ==
    i < (IF loop = "snare" THEN snare_drum_size ELSE hi_hat_size) /\ ~play_notified

\* i < snare_drum_size, i < hi_hat_size
PlayLoopCond(loop, i) == i < (IF loop = "snare" THEN snare_drum_size ELSE hi_hat_size)

SampleAt(loop, i) == IF loop = "snare" THEN snare_drum_sample(i) ELSE hi_hat_sample(i)

\* xTaskNotifyWait(0, 0xFFFFFFFF, &soundToPlay, portMAX_DELAY) returns pdTRUE,
\* then the if / else if on soundToPlay
PlayWait ==
    /\ play_pc = "wait"
    /\ play_notified
    /\ soundToPlay' = play_value
    /\ play_value' = 0
    /\ play_notified' = FALSE
    /\ play_pc' = LoopFor(play_value)
    /\ play_i' = 0
    /\ wakeReqs' = reqs
    /\ reqs' = <<>>
    /\ dacLog' = <<>>
    /\ midReq' = FALSE
    /\ UNCHANGED <<mainVars, tick, null_notified, adc_pc, adc_notify, adcLocal, adVars,
                   umbral_pc, umbral_notify, umbralLocal, play_delay_from, dac, oldVars,
                   signals, adcHist, umbralHist>>

\* vTaskDelay(pdMS_TO_TICKS(1000 / SAMPLE_RATE)): 1000 / 8000 is 0 in int
\* arithmetic, and vTaskDelay(0) only yields
PlayDelayTicks == pdMS_TO_TICKS(1000 \div SAMPLE_RATE)

\* one turn of a for loop: AnalogOutputWrite(sample[i]); vTaskDelay(...); i++,
\* or the loop ends; a turn starts once the previous turn's delay has expired
PlayStream ==
    /\ play_pc \in {"snare", "hihat"}
    /\ play_i = 0 \/ PlayDelayTicks = 0 \/ DelayElapsed(play_delay_from, PlayDelayTicks)
    /\ IF PlayLoopCond(play_pc, play_i)
       THEN /\ dac' = SampleAt(play_pc, play_i)
            /\ dacLog' = Append(dacLog, SampleAt(play_pc, play_i))
            /\ play_delay_from' = IF PlayDelayTicks = 0 THEN play_delay_from ELSE tick
            /\ play_i' = play_i + 1
            /\ UNCHANGED play_pc
       ELSE /\ play_pc' = "neutral"
            /\ UNCHANGED <<dac, dacLog, play_delay_from, play_i>>
    /\ UNCHANGED <<mainVars, tick, null_notified, adc_pc, adc_notify, adcLocal, adVars,
                   umbral_pc, umbral_notify, umbralLocal,
                   play_value, play_notified, soundToPlay, oldVars,
                   signals, adcHist, reqs, wakeReqs, midReq, umbralHist>>

\* faulty alternative: the playback task also turns the indicator off
PlayNeutral_LedOff ==
    /\ play_pc = "neutral"
    /\ dac' = Value(DAC_NEUTRAL)
    /\ dacLog' = Append(dacLog, Value(DAC_NEUTRAL))
    /\ play_pc' = "wait"
    /\ led' = "off"
    /\ UNCHANGED <<mainVars, tick, null_notified, adc_pc, adc_notify, adcLocal, adVars,
                   umbral_pc, umbral_notify, umbral_delay_from,
                   play_value, play_notified, soundToPlay, play_i, play_delay_from, oldVars,
                   signals, adcHist, reqs, wakeReqs, midReq, umbralHist>>

\* AnalogOutputWrite(512), back to xTaskNotifyWait
PlayNeutral ==
    /\ play_pc = "neutral"
    /\ dac' = Value(DAC_NEUTRAL)
    /\ dacLog' = Append(dacLog, Value(DAC_NEUTRAL))
    /\ play_pc' = "wait"
    /\ UNCHANGED <<mainVars, tick, null_notified, adc_pc, adc_notify, adcLocal, adVars,
                   umbral_pc, umbral_notify, umbralLocal,
                   play_value, play_notified, soundToPlay, play_i, play_delay_from, oldVars,
                   signals, adcHist, reqs, wakeReqs, midReq, umbralHist>>

(* --------------------------- AdcTask (ad) ------------------------------ *)
AdStep(from, to) ==
    /\ variant = "ad" /\ adc_pc = from
    /\ adc_pc' = to
    /\ UNCHANGED <<mainVars, tick, null_notified,
                   valor_adc_A, valor_adc_B, milliv_A, milliv_B,
                   last_hit_time_A, last_hit_time_B, current_time,
                   umbral_pc, umbral_notify, umbralLocal,
                   play_pc, play_value, play_notified, playLocal, oldVars,
                   signals, pre_last_A, pre_last_B, prev, playHist, umbralHist>>

\* ulTaskNotifyTake(pdTRUE, portMAX_DELAY)
AdTake ==
    /\ AdStep("take", "read")
    /\ adc_notify > 0
    /\ adc_notify' = 0
    /\ passes' = passes + 1
    /\ passLog' = <<>>
    /\ UNCHANGED <<valor_adc, milliv, uart>>

\* AnalogInputReadSingle(ADC_CHANNEL, &valor_adc)
AdRead ==
    \E r \in RawInputs :
        /\ AdStep("read", "conv")
        /\ valor_adc' = r
        /\ passLog' = Append(passLog, <<"read", r, 0>>)
        /\ UNCHANGED <<adc_notify, passes, milliv, uart>>

AdConv ==
    /\ AdStep("conv", "uart")
    /\ milliv' = ToMilliv(valor_adc)
    /\ passLog' = Append(passLog, <<"conv", ToMilliv(valor_adc), 0>>)
    /\ UNCHANGED <<adc_notify, passes, valor_adc, uart>>

AdUart ==
    /\ AdStep("uart", "take")
    /\ uart' = FormatSingle(milliv)
    /\ passLog' = Append(passLog, <<"uart", milliv, 0>>)
    /\ UNCHANGED <<adc_notify, passes, valor_adc, milliv>>

(* ------------------- ObtenerGolpeP1 / ObtenerGolpeP2 ------------------- *)
OldFrame ==
    UNCHANGED <<mainVars, tick, null_notified, adc_pc, adc_notify, adcLocal, adVars,
                umbral_pc, umbral_notify, umbralLocal,
                play_pc, play_value, play_notified, playLocal,
                signals, adcHist, playHist, umbralHist>>

P1Take ==
    /\ p1_pc = "take" /\ p1_notify > 0
    /\ p1_notify' = 0 /\ p1_pc' = "read"
    /\ UNCHANGED <<p2_pc, p2_notify, ValorP1, ValorP2>> /\ OldFrame

\* AnalogInputReadSingle(CH1, &ValorP1)
P1Read ==
    /\ p1_pc = "read"
    /\ \E r \in RawInputs : ValorP1' = r
    /\ p1_pc' = "take"
    /\ UNCHANGED <<p2_pc, p1_notify, p2_notify, ValorP2>> /\ OldFrame

P2Take ==
    /\ p2_pc = "take" /\ p2_notify > 0
    /\ p2_notify' = 0 /\ p2_pc' = "read"
    /\ UNCHANGED <<p1_pc, p1_notify, ValorP1, ValorP2>> /\ OldFrame

\* AnalogInputReadSingle(CH1, &ValorP2)
P2Read ==
    /\ p2_pc = "read"
    /\ \E r \in RawInputs : ValorP2' = r
    /\ p2_pc' = "take"
    /\ UNCHANGED <<p1_pc, p1_notify, p2_notify, ValorP1>> /\ OldFrame

(* --------------------------- specification ----------------------------- *)
Next ==
    \/ app_main
    \/ TickISR
    \/ TimerAdcCallback
    \/ Timer_medir
    \/ AdcTake \/ AdcReadA \/ AdcReadB \/ AdcConvA \/ AdcConvB \/ AdcUart \/ AdcGetTime
    \/ AdcCheckA \/ AdcGiveA \/ AdcPlayA \/ AdcCheckB \/ AdcGiveB \/ AdcPlayB
    \/ UmbralTake \/ UmbralOn \/ UmbralOff
    \/ PlayWait \/ PlayStream \/ PlayNeutral
    \/ AdTake \/ AdRead \/ AdConv \/ AdUart
    \/ P1Take \/ P1Read \/ P2Take \/ P2Read

Spec == Init /\ [][Next]_vars

\* equal-priority tasks are scheduled round-robin: a task that stays ready runs
FairSpec ==
    /\ Spec
    /\ WF_vars(PlayWait) /\ WF_vars(PlayStream) /\ WF_vars(PlayNeutral)

\* the timer and the tick interrupt keep firing, and the three tasks, of equal
\* priority, are scheduled round-robin: every step that stays possible is taken
LiveSpec ==
    /\ Spec
    /\ WF_vars(TickISR) /\ WF_vars(TimerAdcCallback)
    /\ WF_vars(AdcTake) /\ WF_vars(AdcReadA) /\ WF_vars(AdcReadB)
    /\ WF_vars(AdcConvA) /\ WF_vars(AdcConvB) /\ WF_vars(AdcUart) /\ WF_vars(AdcGetTime)
    /\ WF_vars(AdcCheckA) /\ WF_vars(AdcGiveA) /\ WF_vars(AdcPlayA)
    /\ WF_vars(AdcCheckB) /\ WF_vars(AdcGiveB) /\ WF_vars(AdcPlayB)
    /\ WF_vars(UmbralTake) /\ WF_vars(UmbralOn) /\ WF_vars(UmbralOff)

(* ------------------ one pass over every raw code ----------------------- *)
\* the state app_main leaves behind in the drum and the single-channel variant
Booted ==
    /\ variant \in {"drum", "ad"}
    /\ main_pc = Len(MainSteps(variant)) + 1
    /\ timer_started = TRUE
    /\ adc_task_handle = "AdcTask"
    /\ umbral_task_handle = (IF variant = "drum" THEN "UmbralTask" ELSE NULL)
    /\ playSound_task_handle = (IF variant = "drum" THEN "PlaySoundTask" ELSE NULL)
    /\ ObtenerGolpeP1_task_handle = NULL /\ ObtenerGolpeP2_task_handle = NULL
    /\ null_notified = FALSE
    /\ umbral_pc = (IF variant = "drum" THEN "take" ELSE "none")
    /\ umbral_notify = 0 /\ umbral_delay_from = U32(0) /\ led = "off"
    /\ play_pc = (IF variant = "drum" THEN "wait" ELSE "none")
    /\ play_value = 0 /\ play_notified = FALSE
    /\ soundToPlay = 0 /\ play_i = 0 /\ play_delay_from = U32(0) /\ dac = Value(0)
    /\ p1_pc = "none" /\ p2_pc = "none" /\ p1_notify = 0 /\ p2_notify = 0
    /\ ValorP1 = 0 /\ ValorP2 = 0
    /\ reqs = <<>> /\ wakeReqs = <<>> /\ dacLog = <<>> /\ midReq = FALSE
    /\ holdGives = 0 /\ waitGives = 0 /\ overlapCycle = FALSE

\* every code a 12-bit conversion can deliver
RawCodes == 0..ADC_FULL_SCALE

\* the first pass after boot has just read the inputs: pad A (or the single
\* channel) holds any raw code, pad B the next code up; the tick count is at
\* the cooldown's edge (100 ms) or just past it (110 ms)
InitPass ==
    /\ Booted
    /\ tick \in {U32(10), U32(11)}
    /\ signals = 1 /\ passes = 1 /\ adc_notify = 0
    /\ last_hit_time_A = U32(0) /\ last_hit_time_B = U32(0) /\ current_time = U32(0)
    /\ pre_last_A = U32(0) /\ pre_last_B = U32(0) /\ prev = NoPass
    /\ milliv_A = 0 /\ milliv_B = 0 /\ milliv = 0 /\ uart = NoLine
    /\ \E r \in RawCodes :
         IF variant = "drum"
         THEN /\ adc_pc = "convA"
              /\ valor_adc_A = r
              /\ valor_adc_B = (IF r < ADC_FULL_SCALE THEN r + 1 ELSE r)
              /\ valor_adc = 0
              /\ passLog = << <<"readA", valor_adc_A, 0>>, <<"readB", valor_adc_B, 0>> >>
         ELSE /\ adc_pc = "conv"
              /\ valor_adc = r
              /\ valor_adc_A = 0 /\ valor_adc_B = 0
              /\ passLog = << <<"read", r, 0>> >>

\* the rest of that pass
NextPass ==
    \/ AdcConvA \/ AdcConvB \/ AdcUart \/ AdcGetTime
    \/ AdcCheckA \/ AdcGiveA \/ AdcPlayA \/ AdcCheckB \/ AdcGiveB \/ AdcPlayB
    \/ AdConv \/ AdUart

PassSpec == InitPass /\ [][NextPass]_vars

(* ------------------ passes across a counter wrap ----------------------- *)
\* tick counts 12 ticks before the tick counter wraps (2^32 - 12) and 12 ticks
\* before the millisecond product wraps (429496718, where 10 * tick passes 2^32)
WrapBoots == {<<65535, 65524>>, <<6553, 39310>>}

\* ticks gone by since the run began
WrapTicks == LET b == CHOOSE w \in WrapBoots : Sub32(tick, w)[1] = 0 IN Sub32(tick, b)[2]

\* the drum variant long after boot, AdcTask waiting for the timer; each pad
\* either never had an event or had one accepted at this very tick
InitWrap ==
    /\ Booted /\ variant = "drum"
    /\ tick \in WrapBoots
    /\ signals = 0 /\ passes = 0 /\ adc_notify = 0 /\ adc_pc = "take"
    /\ last_hit_time_A \in {U32(0), TickToMs(tick)}
    /\ last_hit_time_B \in {U32(0), TickToMs(tick)}
    /\ current_time = TickToMs(tick)
    /\ pre_last_A = last_hit_time_A /\ pre_last_B = last_hit_time_B /\ prev = NoPass
    /\ valor_adc_A = 0 /\ valor_adc_B = 0 /\ valor_adc = 0
    /\ milliv_A = 0 /\ milliv_B = 0 /\ milliv = 0 /\ uart = NoLine
    /\ passLog = <<>>

\* tick interrupts: 100 ms or 110 ms go by
TickWrapISR ==
    /\ \E d \in {10, 11} :
         /\ WrapTicks + d <= MaxWrapTicks
         /\ tick' = Add32(tick, d)
    /\ UNCHANGED <<mainVars, null_notified, adc_pc, adc_notify, adcLocal, adVars,
                   umbral_pc, umbral_notify, umbralLocal,
                   play_pc, play_value, play_notified, playLocal, oldVars,
                   signals, adcHist, playHist, umbralHist>>

\* the timer, the tick and AdcTask
NextWrap ==
    \/ TickWrapISR
    \/ TimerAdcCallback
    \/ AdcTake \/ AdcReadA \/ AdcReadB \/ AdcConvA \/ AdcConvB \/ AdcUart \/ AdcGetTime
    \/ AdcCheckA \/ AdcGiveA \/ AdcPlayA \/ AdcCheckB \/ AdcGiveB \/ AdcPlayB

WrapSpec == InitWrap /\ [][NextWrap]_vars

(* ------------------------------ claims -------------------------------- *)
Drum == variant = "drum"

\* the neutral value as an argument of AnalogOutputWrite
Neutral == <<"value", 512>>

\* a pass has run to its end and the next has not begun
PassDone == Drum /\ adc_pc = "take" /\ passes > 0

\* the accept condition of the pass under way, from the values it converted,
\* the time it read and the timestamps it started with
WantA == milliv_A > 400 /\ Gt32(Sub32(current_time, pre_last_A), 100)
WantB == milliv_B > 400 /\ Gt32(Sub32(current_time, pre_last_B), 100)

\* the pass under way has decided pad A / pad B
DecidedA == Drum /\ (adc_pc \in {"giveA", "playA", "chkB", "giveB", "playB"} \/ PassDone)
DecidedB == Drum /\ (adc_pc \in {"giveB", "playB"} \/ PassDone)
\* ... and is past the notifications of pad A / pad B
PastA == Drum /\ (adc_pc \in {"chkB", "giveB", "playB"} \/ PassDone)
PastB == PassDone

\* C1: in every pass and for each pad X, an event is accepted on X (timestamp
\* set to current_time, feedback task and playback task notified) exactly when
\* milliv_X > 400 and current_time - last_hit_time_X > 100; otherwise nothing
\* is notified for X and last_hit_time_X keeps its value.
C1_AcceptIff ==
    /\ DecidedA =>
         /\ Logged("acceptA") <=> WantA
         /\ last_hit_time_A = (IF WantA THEN current_time ELSE pre_last_A)
         /\ ~WantA => ~Logged("giveA") /\ ~Logged("playA")
    /\ PastA /\ WantA => Logged("giveA") /\ Logged("playA")
    /\ DecidedB =>
         /\ Logged("acceptB") <=> WantB
         /\ last_hit_time_B = (IF WantB THEN current_time ELSE pre_last_B)
         /\ ~WantB => ~Logged("giveB") /\ ~Logged("playB")
    /\ PastB /\ WantB => Logged("giveB") /\ Logged("playB")

\* a pass that accepted pad A and turned down pad B although B was above the
\* threshold (B was still cooling down)
C1_Witness ==
    /\ PassDone /\ passes = 2
    /\ Logged("giveA") /\ Logged("playA") /\ last_hit_time_A = current_time
    /\ milliv_B > 400 /\ ~Logged("acceptB") /\ ~Logged("giveB") /\ last_hit_time_B = pre_last_B

\* two passes in a row that both read pad X above the threshold, no more than
\* one cooldown apart
TwoHotA ==
    /\ PassDone /\ passes >= 2
    /\ prev.mvA > 400 /\ milliv_A > 400
    /\ ~Gt32(Sub32(current_time, prev.t), 100)
TwoHotB ==
    /\ PassDone /\ passes >= 2
    /\ prev.mvB > 400 /\ milliv_B > 400
    /\ ~Gt32(Sub32(current_time, prev.t), 100)

Count(b1, b2) == (IF b1 THEN 1 ELSE 0) + (IF b2 THEN 1 ELSE 0)
EventsA == Count(prev.accA, Logged("acceptA"))
EventsB == Count(prev.accB, Logged("acceptB"))

\* C2 as claimed: two such passes accept exactly one event on the pad, not two
\* and not zero.
C2_ExactlyOne ==
    /\ TwoHotA => EventsA = 1
    /\ TwoHotB => EventsB = 1

\* C2 as amended: two such passes never accept two events on the pad; they
\* accept one exactly when, at one of the two passes, more than 100 ms have
\* gone by since the pad's last accepted event (since boot when it has none),
\* and none otherwise.
C2_AtMostOne ==
    /\ TwoHotA =>
         /\ EventsA <= 1
         /\ EventsA = 1 <=> \/ Gt32(Sub32(prev.t, prev.lastA), 100)
                            \/ Gt32(Sub32(current_time, pre_last_A), 100)
    /\ TwoHotB =>
         /\ EventsB <= 1
         /\ EventsB = 1 <=> \/ Gt32(Sub32(prev.t, prev.lastB), 100)
                            \/ Gt32(Sub32(current_time, pre_last_B), 100)

\* two such passes, the first accepted and the second turned down
C2_Witness == TwoHotA /\ prev.accA /\ ~Logged("acceptA")

\* C3: the playback task has one pending identifier at most, the most recent
\* request; when snare and then hi-hat are requested before it wakes, its one
\* wake receives the hi-hat, streams the hi-hat buffer only, and leaves
\* nothing pending.
C3_Overwrite ==
    Drum =>
      /\ play_notified <=> reqs # <<>>
      /\ play_value = (IF reqs = <<>> THEN 0 ELSE reqs[Len(reqs)])
      /\ play_pc \in {"snare", "hihat", "neutral"} =>
           /\ wakeReqs # <<>>
           /\ soundToPlay = wakeReqs[Len(wakeReqs)]
      /\ wakeReqs = <<1, 2>> =>
           /\ soundToPlay = 2
           /\ play_pc # "snare"
           /\ \A k \in 1..Len(dacLog) :
                dacLog[k] = Neutral \/ \E j \in 0..(hi_hat_size - 1) : dacLog[k] = hi_hat_sample(j)
           /\ play_pc = "wait" => Len(dacLog) = hi_hat_size + 1

\* snare then hi-hat were requested before one wake, and that playback is over
C3_Witness ==
    /\ Drum /\ wakeReqs = <<1, 2>> /\ play_pc = "wait"
    /\ Len(dacLog) = hi_hat_size + 1 /\ reqs = <<>> /\ ~play_notified

\* the buffer the playback under way (or the last one) streams
Playing == BufferOf(soundToPlay)
Streaming == Drum /\ play_pc \in {"snare", "hihat"}
Idle == play_pc = "wait"

\* what has been written to the analog output since the last wake is the
\* first play_i samples of the received identifier's buffer, in index order;
\* the loop is left only with the whole buffer written; the task goes back to
\* waiting only after the neutral value has followed the whole buffer
C4_Written ==
    Drum =>
      /\ Streaming =>
           /\ play_pc = LoopFor(soundToPlay)
           /\ play_i <= Len(Playing)
           /\ dacLog = SubSeq(Playing, 1, play_i)
      /\ play_pc = "neutral" => dacLog = Playing
      /\ Idle /\ wakeReqs # <<>> => dacLog = Playing \o <<Neutral>> /\ dac = Neutral

\* C4: once the playback task has received an identifier whose buffer has N
\* samples, it writes exactly those N samples in index order 0..N-1, then the
\* neutral value 512, then waits again; under fair scheduling of the playback
\* task, Streaming always leads to Idle.
C4_Completion == []C4_Written /\ (Streaming ~> Idle)

\* a hi-hat playback has run to its end
C4_Witness ==
    /\ Drum /\ Idle /\ soundToPlay = 2
    /\ Len(dacLog) = hi_hat_size + 1
    /\ \A k \in 1..hi_hat_size : dacLog[k] = hi_hat_sample(k - 1)
    /\ dacLog[hi_hat_size + 1] = Neutral
    /\ dac = Neutral

\* while a request that arrived during a playback is pending: the identifier
\* being played is still the one received at the wake, the stream is the
\* buffer's samples in order, and the pending identifier is the latest request
C5_Unaltered ==
    Drum /\ midReq =>
      /\ wakeReqs # <<>> /\ soundToPlay = wakeReqs[Len(wakeReqs)]
      /\ reqs # <<>> /\ play_notified /\ play_value = reqs[Len(reqs)]
      /\ Streaming => play_pc = LoopFor(soundToPlay) /\ dacLog = SubSeq(Playing, 1, play_i)
      /\ play_pc = "neutral" => dacLog = Playing
      /\ Idle => dacLog = Playing \o <<Neutral>>

\* the pending identifier is taken only by a task that is waiting, and after a
\* playback only once that playback has written its whole buffer and 512
C5_TakenAfter ==
    (play_notified /\ ~play_notified') =>
        /\ Idle
        /\ wakeReqs # <<>> => dacLog = Playing \o <<Neutral>>
        /\ soundToPlay' = reqs[Len(reqs)]

\* C5: a playback notification that arrives while a buffer is being streamed
\* does not shorten, restart or alter the stream (all N samples and the final
\* 512 are still written); the new identifier stays pending, the latest one
\* if several arrive, and is played only after the current buffer is done.
C5_NoInterruption == []C5_Unaltered /\ [][C5_TakenAfter]_vars

\* a request came in during a playback, the playback has since written its
\* whole buffer and 512, and the request is still pending
C5_Witness ==
    /\ Drum /\ midReq /\ Idle /\ play_notified
    /\ dacLog = Playing \o <<Neutral>> /\ Len(dacLog) > 1

\* C6 as claimed: a notification given to the feedback task during its hold
\* does not produce a hold cycle of its own.
C6_OneCycle == ~(Drum /\ overlapCycle /\ umbral_pc = "hold" /\ led = "red")

\* the notifications given to the feedback task since its wake (holdGives) and
\* while it was waiting (waitGives) are all in its notification count
C6_Pending ==
    Drum =>
      /\ umbral_pc \in {"on", "hold"} => umbral_notify = holdGives
      /\ umbral_pc = "take" => umbral_notify = holdGives + waitGives

\* a wake of the feedback task takes every notification pending at that moment
C6_Wake ==
    (umbral_pc = "take" /\ umbral_pc' = "on") =>
        /\ umbral_notify >= 1 /\ umbral_notify' = 0
        /\ overlapCycle' = (holdGives >= 1 /\ waitGives = 0)

\* C6 as amended: a notification given to the feedback task during its hold
\* stays pending, so that the task wakes again for a second hold cycle once
\* the first is over; only the notifications pending at one wake are
\* collapsed into one cycle.
C6_SecondCycle == []C6_Pending /\ [][C6_Wake]_vars

\* the indicator is on for a cycle whose only notifications were given during
\* the hold before
C6_Witness == Drum /\ overlapCycle /\ umbral_pc = "hold" /\ led = "red"

\* C7 as claimed: every timer signal delivered is either consumed by a pass
\* of its own or still queued.
C7_NoneDropped == Drum => passes + adc_notify = signals

\* a pass begins by taking every pending timer signal
C7_TakeAll == (Drum /\ passes' = passes + 1) => adc_notify >= 1 /\ adc_notify' = 0

\* C7 as amended: each iteration of the sampling loop waits for one timer
\* signal at least and consumes all that are pending; signals that arrive
\* during a pass are merged into one pending wake, so there are never more
\* passes than signals, and there can be fewer.
C7_Merged ==
    /\ [](Drum => passes + adc_notify <= signals /\ (adc_pc \notin {"none", "take"} => passes >= 1))
    /\ [][C7_TakeAll]_vars

\* two timer signals were delivered and one pass consumed both
C7_Witness == Drum /\ signals = 2 /\ passes = 1 /\ adc_notify = 0 /\ PassDone

\* C8: in every variant, every task a notification is sent to has been
\* created and has a non-NULL handle before TimerStart is called, and no
\* notification is ever sent to a NULL handle.
C8_Startup ==
    /\ ~null_notified
    /\ timer_started =>
         /\ variant = "drum" => /\ adc_task_handle # NULL
                                /\ umbral_task_handle # NULL
                                /\ playSound_task_handle # NULL
         /\ variant = "ad" => adc_task_handle # NULL
         /\ variant = "old" => ObtenerGolpeP1_task_handle # NULL /\ ObtenerGolpeP2_task_handle # NULL

\* the timer runs and its callback has notified the tasks it wakes
C8_Witness ==
    /\ timer_started /\ signals > 0
    /\ \/ variant = "old" /\ p1_notify > 0 /\ p2_notify > 0
       \/ variant = "ad" /\ passes > 0
       \/ Drum /\ Logged("playB") /\ play_notified

\* the notifications of the pass under way, in the order they were sent
IsNotif(e) == e[1] \in {"giveA", "playA", "giveB", "playB"}
Notifs == SelectSeq(passLog, IsNotif)
BothNotifs == << <<"giveA", 0, 0>>, <<"playA", 1, 0>>, <<"giveB", 0, 0>>, <<"playB", 2, 0>> >>

\* C9: when pads A and B both meet the accept condition in one pass, both
\* events are accepted in that pass, and A's notifications (feedback, then
\* playback with PLAY_SNARE) are sent before B's (feedback, then playback with
\* PLAY_HIHAT).
C9_TieBreak ==
    DecidedA /\ WantA /\ WantB =>
      /\ Len(Notifs) <= 4
      /\ Notifs = SubSeq(BothNotifs, 1, Len(Notifs))
      /\ PassDone => /\ Notifs = BothNotifs
                     /\ Logged("acceptA") /\ Logged("acceptB")
                     /\ last_hit_time_A = current_time /\ last_hit_time_B = current_time

\* a pass that accepted both pads
C9_Witness == PassDone /\ WantA /\ WantB /\ Len(Notifs) = 4

PassOrder == <<"readA", "readB", "convA", "convB", "uart", "time">>
Scaled(raw) == (raw * 3300) \div 4095

\* C10: in a pass, pad A is read before pad B, both conversions come before
\* the telemetry, the telemetry line carries the values converted from the
\* raw samples of this pass, and the telemetry is sent before any of the
\* pass's notifications.
C10_PassOrder ==
    Drum /\ adc_pc # "none" =>
      /\ \A k \in 1..Len(passLog) :
           IF k <= 6 THEN passLog[k][1] = PassOrder[k]
           ELSE passLog[k][1] \in {"acceptA", "rejectA", "giveA", "playA",
                                   "acceptB", "rejectB", "giveB", "playB"}
      /\ Len(passLog) >= 3 => milliv_A = Scaled(passLog[1][2])
      /\ Len(passLog) >= 4 => milliv_B = Scaled(passLog[2][2])
      /\ Len(passLog) >= 5 =>
           /\ passLog[5][2] = <<"A:", Scaled(passLog[1][2]), ",B:", Scaled(passLog[2][2]), "\r\n">>
           /\ uart = passLog[5][2]

\* a pass that read different values on the two pads and sent a notification
C10_Witness ==
    /\ PassDone /\ Len(passLog) >= 5 /\ Scaled(passLog[1][2]) # Scaled(passLog[2][2])
    /\ Len(Notifs) > 0

\* floor(r * 3300 / 4095), and the product as a 32-bit quantity
Floor3300(r) == (r * 3300) \div 4095
Fits32(n) == n >= 0 /\ (n \div 65536) < 65536

ConvertedA == Drum /\ adc_pc # "convA" /\ adc_pc # "none"
ConvertedB == Drum /\ adc_pc \notin {"convA", "convB", "none"}
ConvertedSingle == variant = "ad" /\ adc_pc \notin {"conv", "read", "none"} /\ passes > 0

\* C11: for every raw code r in 0..4095 the converted value is
\* floor(r * 3300 / 4095), lies in 0..3300, does not decrease when r grows
\* (pad B holds the code after pad A's), and r * 3300 fits 32 bits unsigned;
\* in the dual-channel and in the single-channel variant.
C11_Conversion ==
    /\ ConvertedA =>
         /\ valor_adc_A \in 0..4095
         /\ milliv_A = Floor3300(valor_adc_A)
         /\ milliv_A \in 0..3300
         /\ Fits32(valor_adc_A * 3300)
    /\ ConvertedB =>
         /\ milliv_B = Floor3300(valor_adc_B)
         /\ milliv_B \in 0..3300
         /\ Fits32(valor_adc_B * 3300)
         /\ valor_adc_A <= valor_adc_B /\ milliv_A <= milliv_B
    /\ ConvertedSingle =>
         /\ valor_adc \in 0..4095
         /\ milliv = Floor3300(valor_adc)
         /\ milliv \in 0..3300
         /\ Fits32(valor_adc * 3300)

\* the top of the range has been converted on both pads
C11_Witness ==
    /\ ConvertedB /\ valor_adc_A = 4094 /\ valor_adc_B = 4095
    /\ milliv_A = 3299 /\ milliv_B = 3300

\* pad A's test has been made on raw code r, and it came out as the cooldown says
ScenarioA(r, mv, fires) ==
    (DecidedA /\ valor_adc_A = r) =>
        /\ milliv_A = mv
        /\ Logged("acceptA") <=> (fires /\ Gt32(Sub32(current_time, pre_last_A), 100))

\* C12 as claimed: raw 2000 converts to 1610 and fires if the cooldown has
\* elapsed, raw 500 converts to 402 and fires if the cooldown has elapsed, raw
\* 480 converts to 386 and fires no event.
C12_Scenario1610 ==
    /\ ScenarioA(2000, 1610, TRUE)
    /\ ScenarioA(500, 402, TRUE)
    /\ ScenarioA(480, 386, FALSE)

\* C12 as amended: raw 2000 converts to 1611 (not 1610) and fires if the
\* cooldown has elapsed, raw 500 converts to 402 and fires if the cooldown has
\* elapsed, raw 480 converts to 386 and fires no event.
C12_Scenario1611 ==
    /\ ScenarioA(2000, 1611, TRUE)
    /\ ScenarioA(500, 402, TRUE)
    /\ ScenarioA(480, 386, FALSE)

\* raw 2000 was read on pad A with the cooldown elapsed, and the event fired
C12_Witness ==
    /\ PassDone /\ valor_adc_A = 2000 /\ milliv_A = 1611
    /\ Logged("acceptA") /\ Logged("playA")

\* a step of the timer callback: the only one that counts a timer signal
CallbackStep == signals' # signals

\* the callback step increments the notification count of the task(s) it
\* wakes and leaves every other part of the program state as it was
C13_Frame ==
    CallbackStep =>
        /\ signals' = signals + 1
        /\ variant \in {"drum", "ad"} =>
             adc_notify' = adc_notify + 1 /\ UNCHANGED <<p1_notify, p2_notify>>
        /\ variant = "old" =>
             /\ p1_notify' = p1_notify + 1 /\ p2_notify' = p2_notify + 1
             /\ UNCHANGED adc_notify
        /\ UNCHANGED <<valor_adc_A, valor_adc_B, valor_adc, ValorP1, ValorP2,
                       milliv_A, milliv_B, milliv, uart,
                       last_hit_time_A, last_hit_time_B, current_time,
                       umbral_notify, play_value, play_notified, soundToPlay,
                       dac, led, passLog, dacLog, reqs,
                       adc_pc, umbral_pc, play_pc, play_i, p1_pc, p2_pc,
                       main_pc, timer_started, tick, null_notified>>

\* C13: in every variant the timer callback only sends the wake notification
\* to the sampling task(s): it reads no analog input, writes no serial line,
\* and changes no sample variable, timestamp, playback or feedback
\* notification state, output or task position.
C13_CallbackFrame == [][C13_Frame]_vars

\* in the dual-channel variant the callback has fired twice before the
\* sampling task ran
C13_Witness == Drum /\ signals >= 2 /\ adc_notify = signals /\ passes = 0

\* whose step a step is
AdcMoves == adc_pc' # adc_pc
UmbralMoves == umbral_pc' # umbral_pc
PlayMoves == play_pc' # play_pc \/ play_i' # play_i
MainMoves == main_pc' # main_pc

\* an analog input is read or a serial line is written in this step
AdcIO ==
    /\ Len(passLog') = Len(passLog) + 1
    /\ passLog'[Len(passLog')][1] \in {"readA", "readB", "read", "uart"}

\* the analog output is written only in a step of PlaySoundTask, the indicator
\* changes only in a step of UmbralTask, inputs are read and the serial line
\* written only in a step of AdcTask, and each such step is a step of that
\* task alone
C14_Step ==
    variant \in {"drum", "ad"} =>
      /\ (dac' # dac \/ (dacLog' # dacLog /\ dacLog' # <<>>)) =>
           PlayMoves /\ ~AdcMoves /\ ~UmbralMoves /\ ~MainMoves
      /\ led' # led =>
           UmbralMoves /\ ~AdcMoves /\ ~PlayMoves /\ ~MainMoves
      /\ (AdcIO \/ uart' # uart \/ valor_adc_A' # valor_adc_A
                \/ valor_adc_B' # valor_adc_B \/ valor_adc' # valor_adc) =>
           AdcMoves /\ ~UmbralMoves /\ ~PlayMoves /\ ~MainMoves

C15_Step ==
    /\ UmbralMoves =>
         \/ umbral_pc = "none" /\ umbral_pc' = "take" /\ led' = led
         \/ /\ umbral_pc = "take" /\ umbral_pc' = "on"
            /\ umbral_notify >= 1 /\ umbral_notify' = 0 /\ led' = led
         \/ /\ umbral_pc = "on" /\ umbral_pc' = "hold"
            /\ led' = "red" /\ umbral_delay_from' = tick
         \/ /\ umbral_pc = "hold" /\ umbral_pc' = "take"
            /\ led' = "off" /\ Ge32(Sub32(tick, umbral_delay_from), 12)
    /\ led' # led => UmbralMoves

C15_Off ==
    /\ umbral_pc \in {"none", "take", "on"} => led = "off"
    /\ umbral_pc = "hold" => led = "red"

After100(a, b) ==
    LET lo == a[2] - b[2]
        hi == a[1] - b[1] - (IF lo < 0 THEN 1 ELSE 0)
    IN  ((hi + 65536) % 65536) > 0 \/ ((lo + 65536) % 65536) > 100

\* a last-hit value of 0 is the initial value: no event has been stamped yet
Stamped(x) == x # <<0, 0>>

\* C16: any two events accepted on the same pad have recorded timestamps more
\* than 100 ms apart, also when the 32-bit millisecond counter wraps between
\* them: an accepted event is stamped more than 100 ms after the pad's
\* previous stamp, and after the stamp before that when the previous pass
\* accepted an event too.
C16_Separation ==
    /\ DecidedA /\ Logged("acceptA") =>
         /\ last_hit_time_A = current_time
         /\ After100(last_hit_time_A, pre_last_A)
         /\ passes >= 2 /\ prev.accA =>
              /\ pre_last_A = prev.t /\ After100(prev.t, prev.lastA)
              /\ Stamped(prev.lastA) => After100(last_hit_time_A, prev.lastA)
    /\ DecidedB /\ Logged("acceptB") =>
         /\ last_hit_time_B = current_time
         /\ After100(last_hit_time_B, pre_last_B)
         /\ passes >= 2 /\ prev.accB =>
              /\ pre_last_B = prev.t /\ After100(prev.t, prev.lastB)
              /\ Stamped(prev.lastB) => After100(last_hit_time_B, prev.lastB)
    /\ DecidedA /\ ~Logged("acceptA") => last_hit_time_A = pre_last_A
    /\ DecidedB /\ ~Logged("acceptB") => last_hit_time_B = pre_last_B

\* an event accepted on pad A just before the wrap and the next one just
\* after it: the later stamp is the lower number
C16_Witness ==
    /\ PassDone /\ passes = 2 /\ prev.accA /\ Logged("acceptA")
    /\ Stamped(prev.lastA)
    /\ pre_last_A[1] > 0 /\ last_hit_time_A[1] = 0
    /\ last_hit_time_A[2] < 200

\* a pad's own accept condition at the moment of its test
OwnA == milliv_A > 400 /\ After100(current_time, last_hit_time_A)
OwnB == milliv_B > 400 /\ After100(current_time, last_hit_time_B)

\* pad A's test decides on pad A's value and stamp alone and touches pad A's
\* stamp alone; likewise pad B's; the notification steps touch neither stamp
C17_Step ==
    Drum =>
      /\ (adc_pc = "chkA" /\ AdcMoves) =>
           /\ last_hit_time_B' = last_hit_time_B
           /\ adc_pc' = (IF OwnA THEN "giveA" ELSE "chkB")
           /\ last_hit_time_A' = (IF OwnA THEN current_time ELSE last_hit_time_A)
      /\ (adc_pc = "chkB" /\ AdcMoves) =>
           /\ last_hit_time_A' = last_hit_time_A
           /\ adc_pc' = (IF OwnB THEN "giveB" ELSE "take")
           /\ last_hit_time_B' = (IF OwnB THEN current_time ELSE last_hit_time_B)
      /\ (adc_pc \in {"giveA", "playA", "giveB", "playB"} /\ AdcMoves) =>
           UNCHANGED <<last_hit_time_A, last_hit_time_B>>

\* C17: accepting or rejecting an event on one pad never changes the other
\* pad's last-event timestamp, and a pad's decision in a pass depends only on
\* its own converted value and its own last-event timestamp.
C17_Independence == [][C17_Step]_vars

\* pad A, hit in the previous pass, is held back by its cooldown while pad B
\* is accepted in the same pass
C17_Witness ==
    /\ PassDone /\ passes = 2 /\ prev.accA /\ ~prev.accB
    /\ milliv_A > 400 /\ ~Logged("acceptA")
    /\ Logged("acceptB") /\ Logged("playB")
    /\ last_hit_time_A = prev.t /\ last_hit_time_B = current_time

\* the pending value is no value or one of the two identifiers; a received
\* value is 1 or 2, the latest request at the wake; the snare loop runs for 1
\* and writes snare samples, the hi-hat loop runs for 2 and writes hi-hat ones
C18_Values ==
    Drum =>
      /\ play_value \in {0, 1, 2}
      /\ play_notified => play_value \in {1, 2}
      /\ wakeReqs # <<>> =>
           /\ soundToPlay \in {1, 2}
           /\ soundToPlay = wakeReqs[Len(wakeReqs)]
           /\ \A k \in 1..Len(dacLog) :
                \/ dacLog[k] = Neutral /\ k = Len(dacLog) /\ play_pc = "wait"
                \/ /\ soundToPlay = 1
                   /\ k <= snare_drum_size /\ dacLog[k] = <<"snare_drum_sample", k - 1>>
                \/ /\ soundToPlay = 2
                   /\ k <= hi_hat_size /\ dacLog[k] = <<"hi_hat_sample", k - 1>>
      /\ play_pc = "snare" => soundToPlay = 1
      /\ play_pc = "hihat" => soundToPlay = 2
      /\ play_pc = "neutral" => Len(dacLog) > 0

\* a request is sent for an accepted event only, 1 for pad A and 2 for pad B;
\* a wake receives the pending value and enters the loop of that identifier
C18_Step ==
    Drum =>
      /\ (AdcMoves /\ adc_pc = "playA") =>
           Logged("acceptA") /\ play_notified' /\ play_value' = 1
      /\ (AdcMoves /\ adc_pc = "playB") =>
           Logged("acceptB") /\ play_notified' /\ play_value' = 2
      /\ play_value' # play_value =>
           \/ AdcMoves /\ adc_pc \in {"playA", "playB"}
           \/ play_pc = "wait" /\ play_pc' # "wait" /\ play_value' = 0
      /\ (play_pc = "wait" /\ play_pc' # "wait") =>
           /\ play_notified /\ play_value \in {1, 2}
           /\ soundToPlay' = play_value
           /\ play_pc' = (IF play_value = 1 THEN "snare" ELSE "hihat")

\* C18: whenever PlaySoundTask wakes, the value it receives is PLAY_SNARE (1)
\* or PLAY_HIHAT (2), never 0 and never both combined; it is the identifier
\* of the most recently accepted event, 1 for pad A and 2 for pad B; the snare
\* buffer is streamed for 1 and the hi-hat buffer for 2.
C18_Identifier == []C18_Values /\ [][C18_Step]_vars

\* hi-hat then snare were requested before one wake, which received the snare
\* and has streamed the snare buffer
C18_Witness ==
    /\ Drum /\ wakeReqs = <<2, 1>> /\ soundToPlay = 1
    /\ play_pc = "neutral" /\ Len(dacLog) = snare_drum_size

\* C19: no event is accepted on a pad in a pass whose current_time is at most
\* 100 ms after boot, even when the pad's value is above the threshold and the
\* pad never had an event: both last-hit timestamps start at 0.
C19_BootWindow ==
    /\ (DecidedA /\ ~(current_time[1] > 0 \/ current_time[2] > 100)) =>
         /\ ~Logged("acceptA") /\ ~Logged("giveA") /\ ~Logged("playA")
         /\ last_hit_time_A = <<0, 0>>
    /\ (DecidedB /\ ~(current_time[1] > 0 \/ current_time[2] > 100)) =>
         /\ ~Logged("acceptB") /\ ~Logged("giveB") /\ ~Logged("playB")
         /\ last_hit_time_B = <<0, 0>>

\* a pass 100 ms after boot read both pads above the threshold and accepted
\* nothing
C19_Witness ==
    /\ PassDone /\ current_time = <<0, 100>>
    /\ milliv_A > 400 /\ milliv_B > 400
    /\ Len(Notifs) = 0 /\ Logged("rejectA") /\ Logged("rejectB")
    /\ last_hit_time_A = <<0, 0>> /\ last_hit_time_B = <<0, 0>>

====
